---- MODULE Spec2Model ----
(***************************************************************************)
(* A model of ValhallaNodes (src/valhalla_nodes.py): the coordinate codec  *)
(* format_coords, the Lua exporter export_lua, the scraper scrape_nodes    *)
(* and the run() loop of ValhallaNodesApp.                                  *)
(*                                                                         *)
(* Python values are modelled as follows.                                  *)
(*   str    a sequence of one-character strings, so that lower() and       *)
(*          capitalize() act on characters; Str(s) is the text itself.     *)
(*   float  a record [nan, v]: nan marks float("nan"), otherwise the value *)
(*          is v / (10000 * Sub), an exact rational.  Arithmetic on these   *)
(*          is exact; IEEE rounding error (far below the 0.5 that          *)
(*          format_coords adds) is not modelled.                           *)
(*   dict   an insertion-ordered sequence of [k, v] records.               *)
(*   None   the string "None" where a name may be missing.                 *)
(***************************************************************************)
EXTENDS Integers, Sequences, FiniteSets, TLC

VARIABLES
  pc,         \* control position of the operation under way
  fc_in,      \* format_coords: the argument pairs still to be packed / packed
  fc_out,     \* format_coords: one result per packed pair
  node_vars,  \* ValhallaNodesApp.node_vars: category -> checkbox value
  toggles,    \* number of checkbox clicks made before Run
  cat_idx,    \* run(): position in node_vars.items()
  node_type,  \* the category being scraped / exported
  map_ids,    \* map name -> map id   (map_ids.json)
  node_ids,   \* node name -> node id (node_ids.json)
  objects,    \* scrape_nodes: the listing's "data" list
  obj_idx,    \* scrape_nodes: number of listed objects already iterated
  page,       \* scrape_nodes: what the code found in the page most recently fetched
  nodes,      \* scrape_nodes: the observation list / export_lua: its input
  requests,   \* requests.get calls of the current scrape_nodes call, in order
  raised_at,  \* "none", or the place an uncaught exception left from
  nodes_by_map, \* export_lua: the grouping built by the latest call
  lua_lines,  \* export_lua: the lines joined into the latest file
  files,      \* the output directory: a set of [name, text]
  scraped     \* run(): per category already scraped, the number of observations returned

vars == <<pc, fc_in, fc_out, node_vars, toggles, cat_idx, node_type, map_ids,
          node_ids, objects, obj_idx, page, nodes, requests, raised_at,
          nodes_by_map, lua_lines, files, scraped>>

(***************************************************************************)
(* Bounds of the model.                                                    *)
(***************************************************************************)
Sub == 2          \* a float is a multiple of 1/(10000*Sub)
MaxNodes == 3     \* longest observation list handed to export_lua directly
MaxObjects == 2   \* longest listing "data" list
MaxToggles == 1   \* checkbox clicks before Run

None == "None"

RECURSIVE BoundedSeq(_, _)
BoundedSeq(S, n) ==
  IF n = 0 THEN {<<>>}
  ELSE LET shorter == BoundedSeq(S, n - 1)
       IN  shorter \cup {Append(s, e) : s \in {t \in shorter : Len(t) = n - 1}, e \in S}

(***************************************************************************)
(* Python str.                                                             *)
(***************************************************************************)
LowerLetters == <<"a","b","c","d","e","f","g","h","i","j","k","l","m",
                  "n","o","p","q","r","s","t","u","v","w","x","y","z">>
UpperLetters == <<"A","B","C","D","E","F","G","H","I","J","K","L","M",
                  "N","O","P","Q","R","S","T","U","V","W","X","Y","Z">>

char_upper(c) ==
  IF \E i \in 1..Len(LowerLetters) : LowerLetters[i] = c
  THEN UpperLetters[CHOOSE i \in 1..Len(LowerLetters) : LowerLetters[i] = c]
  ELSE c

char_lower(c) ==
  IF \E i \in 1..Len(UpperLetters) : UpperLetters[i] = c
  THEN LowerLetters[CHOOSE i \in 1..Len(UpperLetters) : UpperLetters[i] = c]
  ELSE c

\* str.lower()
lower(s) == [i \in 1..Len(s) |-> char_lower(s[i])]

\* str.capitalize(): first character upper-cased, all others lower-cased
capitalize_rest_kept(s) ==
  [i \in 1..Len(s) |-> IF i = 1 THEN char_upper(s[i]) ELSE s[i]]

capitalize(s) ==
  [i \in 1..Len(s) |-> IF i = 1 THEN char_upper(s[i]) ELSE char_lower(s[i])]

\* the text of a str
RECURSIVE Str(_)
Str(s) == IF s = <<>> THEN "" ELSE Head(s) \o Str(Tail(s))

\* "\n".join(lines)
RECURSIVE Join(_)
Join(lines) ==
  IF lines = <<>> THEN ""
  ELSE IF Len(lines) = 1 THEN lines[1]
  ELSE lines[1] \o "\n" \o Join(Tail(lines))

(***************************************************************************)
(* Python float and int.                                                   *)
(*                                                                         *)
(* Python's int is unbounded, and a packed coordinate exceeds the 32 bits  *)
(* of a model integer, so the int format_coords returns is kept as two     *)
(* limbs: [hi, lo] is hi * Base + lo with 0 <= lo < Base.  The limbs of a   *)
(* value are unique, so equal ints are equal records.                      *)
(***************************************************************************)
Base == 1000000
Scale == 10000

\* the float n / Scale + r / (Scale * Sub)
Num(v) == [nan |-> FALSE, v |-> v]
NaN == [nan |-> TRUE, v |-> 0]

\* n / d truncated toward zero, d > 0: Python's int() of a float
TruncDiv(n, d) == IF n >= 0 THEN n \div d ELSE -((-n) \div d)

\* math.floor(c * Scale + 0.5) for the finite float c = c.v / (Scale * Sub)
scale_floor(c) == (2 * c.v + Sub) \div (2 * Sub)

\* int(c * Scale + 0.5) for the finite float c = c.v / (Scale * Sub)
scale_round(c) == TruncDiv(2 * c.v + Sub, 2 * Sub)

\* the int hi * Base + lo, for any two model integers
int_of(hi, lo) == [hi |-> hi + (lo \div Base), lo |-> lo % Base]

\* lo written with six digits
pad6(lo) ==
  (IF lo < 10 THEN "00000" ELSE IF lo < 100 THEN "0000"
   ELSE IF lo < 1000 THEN "000" ELSE IF lo < 10000 THEN "00"
   ELSE IF lo < 100000 THEN "0" ELSE "") \o ToString(lo)

\* str(n) of a non-negative int
nat_str(n) == IF n.hi = 0 THEN ToString(n.lo) ELSE ToString(n.hi) \o pad6(n.lo)

\* str(n), as an f-string writes an int
int_str(n) ==
  IF n.hi >= 0 THEN nat_str(n)
  ELSE "-" \o nat_str(IF n.lo = 0 THEN [hi |-> -n.hi, lo |-> 0]
                      ELSE [hi |-> -n.hi - 1, lo |-> Base - n.lo])

\* int() of a NaN raises ValueError
format_coords_raises(x, y) == x.nan \/ y.nan

\* scale_round(x) * 10000 + scale_round(y)
format_coords_base10000(x, y) ==
  int_of(scale_round(x) \div 100, (scale_round(x) % 100) * 10000 + scale_round(y))

format_coords_floor(x, y) == int_of(scale_floor(x), scale_floor(y))

\* int(x * 10000 + 0.5) * 1000000 + int(y * 10000 + 0.5)
format_coords(x, y) == int_of(scale_round(x), scale_round(y))

(***************************************************************************)
(* Python dict (insertion ordered): a sequence of [k, v].                  *)
(***************************************************************************)
dict_has(d, k) == \E i \in 1..Len(d) : d[i].k = k

dict_get(d, k) == d[CHOOSE i \in 1..Len(d) : d[i].k = k].v

\* d[k] = v the way a dict that re-inserts an overwritten key at the end would
dict_set_moving(d, k, v) ==
  Append(SelectSeq(d, LAMBDA e : e.k # k), [k |-> k, v |-> v])

\* d[k] = v the way a dict that keeps the first value of a key would
dict_set_first_wins(d, k, v) ==
  IF dict_has(d, k) THEN d ELSE Append(d, [k |-> k, v |-> v])

\* d[k] = v: an existing key keeps its position and takes the new value
dict_set(d, k, v) ==
  IF dict_has(d, k)
  THEN [i \in 1..Len(d) |-> IF d[i].k = k THEN [k |-> k, v |-> v] ELSE d[i]]
  ELSE Append(d, [k |-> k, v |-> v])

\* d.setdefault(k, {})
dict_setdefault(d, k) == IF dict_has(d, k) THEN d ELSE Append(d, [k |-> k, v |-> <<>>])

(***************************************************************************)
(* export_lua.                                                             *)
(***************************************************************************)
\* map_ids.get(...) / node_ids.get(...) is None for neither lookup
resolves(item, mids, nids) ==
  item.map_name \in DOMAIN mids /\ item.node_name \in DOMAIN nids

\* one iteration of "for item in nodes" on a resolvable item
aggregate_item(grouping, item, mids, nids) ==
  LET map_id  == mids[item.map_name]
      node_id == nids[item.node_name]
      packed  == format_coords(item.coords[1], item.coords[2])
      g1      == dict_setdefault(grouping, map_id)
  IN  dict_set(g1, map_id, dict_set(dict_get(g1, map_id), packed, node_id))

\* the loop "for item in nodes": the grouping after the items, in order
RECURSIVE aggregate(_, _, _, _)
aggregate(grouping, items, mids, nids) ==
  IF items = <<>> THEN grouping
  ELSE IF resolves(Head(items), mids, nids)
       THEN aggregate(aggregate_item(grouping, Head(items), mids, nids),
                      Tail(items), mids, nids)
       ELSE aggregate(grouping, Tail(items), mids, nids)

\* format_coords is reached, with a NaN, for some resolvable item
export_raises(items, mids, nids) ==
  \E i \in 1..Len(items) :
    /\ resolves(items[i], mids, nids)
    /\ format_coords_raises(items[i].coords[1], items[i].coords[2])

entry_line(e) == "    [" \o int_str(e.k) \o "] = " \o ToString(e.v) \o ","

\* the lines of one map block
map_block(m) ==
  <<"  [" \o ToString(m.k) \o "] = {">>
    \o [i \in 1..Len(m.v) |-> entry_line(m.v[i])]
    \o <<"  },">>

RECURSIVE map_blocks(_)
map_blocks(grouping) ==
  IF grouping = <<>> THEN <<>>
  ELSE map_block(Head(grouping)) \o map_blocks(Tail(grouping))

build_lua_lines(ntype, grouping) ==
  <<"GatherMate2" \o Str(capitalize(ntype)) \o "Data = {">>
    \o map_blocks(grouping) \o <<"}">>

lua_path(ntype) == Str(capitalize(ntype)) \o "Data.lua"

\* open(lua_path, "w").write(text)
file_write(fs, name, text) ==
  {f \in fs : f.name # name} \cup {[name |-> name, text |-> text]}

\* the effect of export_lua(node_type, nodes, map_ids, node_ids, out_dir),
\* leaving control at `after` when it returns
export_lua(after) ==
  IF export_raises(nodes, map_ids, node_ids)
  THEN /\ pc' = "raised"
       /\ raised_at' = "export_lua"
       /\ UNCHANGED <<nodes_by_map, lua_lines, files>>
  ELSE LET grouping == aggregate(<<>>, nodes, map_ids, node_ids)
           lines    == build_lua_lines(node_type, grouping)
       IN  /\ nodes_by_map' = grouping
           /\ lua_lines' = lines
           /\ files' = file_write(files, lua_path(node_type), Join(lines))
           /\ pc' = after
           /\ UNCHANGED raised_at

(***************************************************************************)
(* Inputs.                                                                 *)
(***************************************************************************)
Herbalism   == <<"H","e","r","b","a","l","i","s","m">>
Mining      == <<"M","i","n","i","n","g">>
Fishing     == <<"F","i","s","h","i","n","g">>
Gas         == <<"G","a","s">>
Treasure    == <<"T","r","e","a","s","u","r","e">>
Archaeology == <<"A","r","c","h","a","e","o","l","o","g","y">>

\* the keys of ValhallaNodesApp.node_vars, in insertion order
NodeVarNames == <<Herbalism, Mining, Fishing, Gas, Treasure, Archaeology>>

\* the checkbox values after construction
NodeVarDefaults ==
  [i \in 1..Len(NodeVarNames) |-> NodeVarNames[i] \in {Herbalism, Mining}]

\* category names handed to export_lua directly (the repository's test uses
\* the lower-case one; scrape_nodes lower-cases, so any case is accepted)
ExportTypes ==
  {lower(Herbalism), Herbalism, <<"M","I","N","I","N","G">>,
   <<"g","a","s","C","l","o","u","d">>}

MapIdVals == {42, 43}
NodeIdVals == {98, 99}

\* contents of map_ids.json / node_ids.json (a missing file loads as {})
MapIdsInputs ==
  { <<>>, [n \in {"A"} |-> 42], [n \in {"A", "B"} |-> 42],
    [n \in {"A", "B"} |-> IF n = "A" THEN 42 ELSE 43] }

NodeIdsInputs ==
  { <<>>, [n \in {"Foo"} |-> 99],
    [n \in {"Foo", "Bar"} |-> IF n = "Foo" THEN 99 ELSE 98] }

Obs(m, n, x, y) == [map_name |-> m, node_name |-> n, coords |-> <<x, y>>]

\* 1.0 and 2.0; a float just below 2.0 that packs to the same key; 3.0, 4.0
F1 == Num(1 * Scale * Sub)
F2 == Num(2 * Scale * Sub)
F2below == Num(2 * Scale * Sub - 1)
F3 == Num(3 * Scale * Sub)
F4 == Num(4 * Scale * Sub)

\* observations handed to export_lua directly
ObsInputs ==
  { Obs("A", "Foo", F1, F2), Obs("A", "Bar", F1, F2below),
    Obs("A", "Foo", F3, F4), Obs("B", "Bar", F1, F2),
    Obs("B", "Foo", F3, F4), Obs(None, "Foo", F1, F2),
    Obs("A", "Baz", F3, F4), Obs("A", "Foo", NaN, F2) }

\* floats handed to format_coords directly: 0, 0.0001, 1.0, 12.3, 45.6,
\* 99.9999, 100, half a unit above 0, a whole unit below 0, NaN
CodecInputs ==
  { Num(k * Sub) : k \in {0, 1, 10000, 123000, 456000, 999999, 1000000} }
    \cup { Num(1), Num(-Sub), NaN }

(***************************************************************************)
(* The state outside the operation under way.                              *)
(***************************************************************************)
CodecIdle == fc_in = <<>> /\ fc_out = <<>>

ScrapeIdle ==
  objects = <<>> /\ obj_idx = 0 /\ page = [kind |-> "none"] /\ requests = <<>>

ExportIdle == nodes_by_map = <<>> /\ lua_lines = <<>>

RunIdle ==
  /\ node_vars = NodeVarDefaults
  /\ toggles = 0
  /\ cat_idx = 0
  /\ scraped = <<>>

(***************************************************************************)
(* format_coords called on its own.                                        *)
(***************************************************************************)
InitCodec ==
  /\ pc = "format_coords"
  /\ fc_in \in {<<p, q>> : p \in CodecInputs \X CodecInputs,
                           q \in CodecInputs \X CodecInputs}
  /\ fc_out = <<>>
  /\ node_type = <<>> /\ map_ids = <<>> /\ node_ids = <<>> /\ nodes = <<>>
  /\ raised_at = "none" /\ files = {}
  /\ ScrapeIdle /\ ExportIdle /\ RunIdle

\* one call format_coords(x, y), on the next pair of fc_in
FormatCoordsCall ==
  /\ pc = "format_coords"
  /\ Len(fc_out) < Len(fc_in)
  /\ LET x == fc_in[Len(fc_out) + 1][1]
         y == fc_in[Len(fc_out) + 1][2]
     IN  fc_out' = Append(fc_out,
           IF format_coords_raises(x, y)
           THEN [raised |-> TRUE, value |-> 0]
           ELSE [raised |-> FALSE, value |-> format_coords(x, y)])
  /\ UNCHANGED <<pc, fc_in, node_vars, toggles, cat_idx, node_type, map_ids,
                 node_ids, objects, obj_idx, page, nodes, requests, raised_at,
                 nodes_by_map, lua_lines, files, scraped>>

NextCodec == FormatCoordsCall

SpecCodec == InitCodec /\ [][NextCodec]_vars

(***************************************************************************)
(* export_lua called on its own.                                           *)
(***************************************************************************)
InitExport ==
  /\ pc = "export_lua"
  /\ node_type \in ExportTypes
  /\ nodes \in BoundedSeq(ObsInputs, MaxNodes)
  /\ map_ids \in MapIdsInputs
  /\ node_ids \in NodeIdsInputs
  /\ raised_at = "none" /\ files = {}
  /\ CodecIdle /\ ScrapeIdle /\ ExportIdle /\ RunIdle

ExportLuaCall ==
  /\ pc = "export_lua"
  /\ export_lua("exported")
  /\ UNCHANGED <<fc_in, fc_out, node_vars, toggles, cat_idx, node_type, map_ids,
                 node_ids, objects, obj_idx, page, nodes, requests, scraped>>

NextExport == ExportLuaCall

SpecExport == InitExport /\ [][NextExport]_vars

(***************************************************************************)
(* scrape_nodes.  What the network returns is an input: a listing page and *)
(* one detail page per request, each described by what the code finds in   *)
(* it.                                                                     *)
(***************************************************************************)
\* WOWHEAD_OBJECT_PAGES: lower-case category -> listing URL
WOWHEAD_OBJECT_PAGES ==
  [k \in {lower(Herbalism), lower(Mining), lower(Fishing), lower(Treasure),
          lower(Gas)} |->
     IF k = lower(Herbalism) THEN "https://www.wowhead.com/objects/herbs"
     ELSE IF k = lower(Mining) THEN "https://www.wowhead.com/objects/mining"
     ELSE IF k = lower(Fishing) THEN "https://www.wowhead.com/objects/fishing"
     ELSE IF k = lower(Treasure) THEN "https://www.wowhead.com/objects/treasure"
     ELSE "https://www.wowhead.com/objects/gas-clouds"]

has_page_url(ntype) == lower(ntype) \in DOMAIN WOWHEAD_OBJECT_PAGES

page_url(ntype) == WOWHEAD_OBJECT_PAGES[lower(ntype)]

\* a listed object; id 0 stands for a missing (or falsy) "id"
Object(id, displayName, name) ==
  [id |-> id, displayName |-> displayName, name |-> name]

ObjInputs ==
  { Object(0, "Foo", None), Object(1, "Foo", "Bar"),
    Object(2, None, "Bar"), Object(2, None, None) }

\* the listing page: the request fails, no script holds "new Listview", the
\* pattern does not match, the JSON does not decode, the decoded "data" is
\* not a list of objects, or it is the list `data`
ListingFailures ==
  {"listing_fetch_failed", "listing_no_script", "listing_no_match",
   "listing_bad_json"}

ListingPages ==
  {[kind |-> k] : k \in ListingFailures \cup {"listing_bad_shape"}}
    \cup {[kind |-> "listing_ok", data |-> d] : d \in BoundedSeq(ObjInputs, MaxObjects)}

\* a JSON value met where a coordinate is expected
RawNum(v) == [kind |-> "num", v |-> v]
RawText == [kind |-> "text", v |-> 0]
RawNaN == [kind |-> "nan", v |-> 0]

\* the pairs [1.0, 2.0], ["abc", 2.0], [1.0] (one element only), [NaN, 2.0]
PairOk == <<RawNum(1 * Scale * Sub), RawNum(2 * Scale * Sub)>>
PairText == <<RawText, RawNum(2 * Scale * Sub)>>
PairShort == <<RawNum(1 * Scale * Sub)>>
PairNaN == <<RawNaN, RawNum(2 * Scale * Sub)>>

\* the "coords" lists of a mapper entry
CoordsInputs ==
  { <<>>, <<PairOk>>, <<PairOk, PairOk>>, <<PairText, PairOk>>,
    <<PairOk, PairText>>, <<PairOk, PairShort>>, <<PairNaN>> }

EntryInputs ==
  {[uiMapName |-> m, coords |-> c] : m \in {"A", None}, c \in CoordsInputs}

\* g_mapperData: a sequence of zones, each a sequence of entries
MapperInputs == {<<>>} \cup {<< <<e>> >> : e \in EntryInputs}

\* the detail page: the request fails, g_mapperData is absent, its JSON does
\* not decode, the decoded value is not zones of entries with a coords list,
\* or it is `mapper`
DetailPages ==
  {[kind |-> k] : k \in {"fetch_failed", "no_marker", "bad_json", "bad_shape"}}
    \cup {[kind |-> "ok", mapper |-> m] : m \in MapperInputs}

\* obj.get("displayName") or obj.get("name") or node_type
obj_name(obj, ntype) ==
  IF obj.displayName # None THEN obj.displayName
  ELSE IF obj.name # None THEN obj.name
  ELSE Str(ntype)

obj_url(obj) == "https://www.wowhead.com/object=" \o ToString(obj.id)

\* float(r) raises ValueError
float_raises(r) == r.kind = "text"

float_of(r) == IF r.kind = "nan" THEN NaN ELSE Num(r.v)

\* "for x, y in ..." raises ValueError: the pair does not unpack into two
unpack_raises(pair) == Len(pair) # 2

\* the loop over entry["coords"]: the observations appended
RECURSIVE parse_coords(_, _, _)
parse_coords(coords, map_name, name) ==
  IF coords = <<>> THEN <<>>
  ELSE LET pair == Head(coords)
           rest == parse_coords(Tail(coords), map_name, name)
       IN  IF float_raises(pair[1]) \/ float_raises(pair[2]) THEN rest
           ELSE <<[map_name |-> map_name, node_name |-> name,
                   coords |-> <<float_of(pair[1]), float_of(pair[2])>>]>> \o rest

\* the loop over the entries of one zone
RECURSIVE parse_entries(_, _)
parse_entries(entries, name) ==
  IF entries = <<>> THEN <<>>
  ELSE parse_coords(Head(entries).coords, Head(entries).uiMapName, name)
         \o parse_entries(Tail(entries), name)

\* the loop over mapper.values()
RECURSIVE parse_mapper(_, _)
parse_mapper(mapper, name) ==
  IF mapper = <<>> THEN <<>>
  ELSE parse_entries(Head(mapper), name) \o parse_mapper(Tail(mapper), name)

\* some pair of the mapper does not unpack
mapper_raises(mapper) ==
  \E z \in 1..Len(mapper) : \E e \in 1..Len(mapper[z]) :
    \E p \in 1..Len(mapper[z][e].coords) : unpack_raises(mapper[z][e].coords[p])

\* the requests.get calls made for one listed object
detail_requests_retrying(obj, dp) ==
  IF dp.kind = "fetch_failed"
  THEN <<[url |-> obj_url(obj), ok |-> FALSE], [url |-> obj_url(obj), ok |-> FALSE]>>
  ELSE <<[url |-> obj_url(obj), ok |-> TRUE]>>

detail_requests(obj, dp) ==
  <<[url |-> obj_url(obj), ok |-> dp.kind # "fetch_failed"]>>

\* lines 55-87: from the call to the start of the loop over the objects
ScrapeListing ==
  /\ pc = "scrape_nodes"
  /\ obj_idx' = 0
  /\ nodes' = <<>>
  /\ IF ~has_page_url(node_type)
     THEN /\ requests' = <<>>
          /\ page' = [kind |-> "none"]
          /\ objects' = <<>>
          /\ pc' = "returned"
          /\ UNCHANGED raised_at
     ELSE \E lp \in ListingPages :
            /\ requests' = <<[url |-> page_url(node_type),
                              ok |-> lp.kind # "listing_fetch_failed"]>>
            /\ page' = [kind |-> lp.kind]
            /\ objects' = IF lp.kind = "listing_ok" THEN lp.data ELSE <<>>
            /\ pc' = IF lp.kind \in ListingFailures THEN "returned"
                     ELSE IF lp.kind = "listing_bad_shape" THEN "raised"
                     ELSE "objects"
            /\ raised_at' = IF lp.kind = "listing_bad_shape" THEN "listing"
                            ELSE raised_at
  /\ UNCHANGED <<fc_in, fc_out, node_vars, toggles, cat_idx, node_type, map_ids,
                 node_ids, nodes_by_map, lua_lines, files, scraped>>

\* lines 90-117: one iteration of "for obj in objects"
ScrapeObject ==
  /\ pc = "objects"
  /\ obj_idx < Len(objects)
  /\ LET obj == objects[obj_idx + 1]
     IN  IF obj.id = 0
         THEN /\ obj_idx' = obj_idx + 1
              /\ UNCHANGED <<pc, page, nodes, requests, raised_at>>
         ELSE \E dp \in DetailPages :
                /\ requests' = requests \o detail_requests(obj, dp)
                /\ page' = [kind |-> dp.kind]
                /\ IF dp.kind = "bad_shape"
                   THEN /\ pc' = "raised"
                        /\ raised_at' = "object"
                        /\ UNCHANGED <<obj_idx, nodes>>
                   ELSE IF dp.kind = "ok" /\ mapper_raises(dp.mapper)
                   THEN /\ pc' = "raised"
                        /\ raised_at' = "pair"
                        /\ UNCHANGED <<obj_idx, nodes>>
                   ELSE /\ nodes' = IF dp.kind = "ok"
                                    THEN nodes \o parse_mapper(dp.mapper,
                                                    obj_name(obj, node_type))
                                    ELSE nodes
                        /\ obj_idx' = obj_idx + 1
                        /\ UNCHANGED <<pc, raised_at>>
  /\ UNCHANGED <<fc_in, fc_out, node_vars, toggles, cat_idx, node_type, map_ids,
                 node_ids, objects, nodes_by_map, lua_lines, files, scraped>>

\* lines 119-120: the loop is over, the list is returned
ScrapeReturn ==
  /\ pc = "objects"
  /\ obj_idx = Len(objects)
  /\ pc' = "returned"
  /\ UNCHANGED <<fc_in, fc_out, node_vars, toggles, cat_idx, node_type, map_ids,
                 node_ids, objects, obj_idx, page, nodes, requests, raised_at,
                 nodes_by_map, lua_lines, files, scraped>>

InitScrape ==
  /\ pc = "scrape_nodes"
  /\ node_type \in {Herbalism, lower(Mining), Archaeology}
  /\ map_ids = <<>> /\ node_ids = <<>> /\ nodes = <<>>
  /\ raised_at = "none" /\ files = {}
  /\ CodecIdle /\ ScrapeIdle /\ ExportIdle /\ RunIdle

NextScrape == ScrapeListing \/ ScrapeObject \/ ScrapeReturn

SpecScrape == InitScrape /\ [][NextScrape]_vars

(***************************************************************************)
(* ValhallaNodesApp: the checkboxes and run().                             *)
(***************************************************************************)
\* the mappings loaded at construction: both files missing, or both present
RunMappingInputs ==
  { [map_ids |-> <<>>, node_ids |-> <<>>],
    [map_ids |-> [n \in {"A"} |-> 42], node_ids |-> [n \in {"Foo"} |-> 99]] }

\* the state after ValhallaNodesApp.__init__
Init ==
  /\ pc = "idle"
  /\ node_vars = NodeVarDefaults
  /\ toggles = 0
  /\ cat_idx = 0
  /\ scraped = <<>>
  /\ \E m \in RunMappingInputs : map_ids = m.map_ids /\ node_ids = m.node_ids
  /\ node_type = <<>> /\ nodes = <<>>
  /\ raised_at = "none" /\ files = {}
  /\ CodecIdle /\ ScrapeIdle /\ ExportIdle

\* a click on the checkbox of category i
Toggle(i) ==
  /\ pc = "idle"
  /\ toggles < MaxToggles
  /\ toggles' = toggles + 1
  /\ node_vars' = [node_vars EXCEPT ![i] = ~node_vars[i]]
  /\ UNCHANGED <<pc, fc_in, fc_out, cat_idx, node_type, map_ids, node_ids,
                 objects, obj_idx, page, nodes, requests, raised_at,
                 nodes_by_map, lua_lines, files, scraped>>

\* a click on Run: run() is entered
RunClick ==
  /\ pc = "idle"
  /\ pc' = "run"
  /\ cat_idx' = 0
  /\ UNCHANGED <<fc_in, fc_out, node_vars, toggles, node_type, map_ids, node_ids,
                 objects, obj_idx, page, nodes, requests, raised_at,
                 nodes_by_map, lua_lines, files, scraped>>

\* the positions of node_vars.items() after cat_idx whose checkbox is set
selected_after(idx) == {i \in (idx + 1)..Len(NodeVarNames) : node_vars[i]}

\* lines 230-233: the loop moves to the next selected category and calls
\* scrape_nodes for it
RunScrape ==
  /\ pc = "run"
  /\ selected_after(cat_idx) # {}
  /\ LET i == CHOOSE j \in selected_after(cat_idx) :
                \A k \in selected_after(cat_idx) : j <= k
     IN  /\ cat_idx' = i
         /\ node_type' = NodeVarNames[i]
  /\ pc' = "scrape_nodes"
  /\ UNCHANGED <<fc_in, fc_out, node_vars, toggles, map_ids, node_ids,
                 objects, obj_idx, page, nodes, requests, raised_at,
                 nodes_by_map, lua_lines, files, scraped>>

\* "if not nodes: continue" with the test always false
skips_export_never(ns) == FALSE

\* "if not nodes: continue"
skips_export(ns) == ns = <<>>

\* lines 233-236: scrape_nodes has returned; export unless the list is empty.
\* The locals of the finished scrape_nodes call are dropped, and so is the
\* list, which run() does not read again before it is reassigned.
RunExport ==
  /\ pc = "returned"
  /\ cat_idx > 0
  /\ scraped' = Append(scraped,
       [idx |-> cat_idx, any |-> nodes # <<>>,
        resolvable |-> \E n \in 1..Len(nodes) : resolves(nodes[n], map_ids, node_ids)])
  /\ IF skips_export(nodes)
     THEN /\ pc' = "run"
          /\ UNCHANGED <<raised_at, nodes_by_map, lua_lines, files>>
     ELSE export_lua("run")
  /\ objects' = <<>> /\ obj_idx' = 0 /\ page' = [kind |-> "none"]
  /\ requests' = <<>> /\ nodes' = <<>>
  /\ UNCHANGED <<fc_in, fc_out, node_vars, toggles, cat_idx, node_type, map_ids,
                 node_ids>>

\* line 237: no selected category is left; "Export complete"
RunFinish ==
  /\ pc = "run"
  /\ selected_after(cat_idx) = {}
  /\ pc' = "done"
  /\ UNCHANGED <<fc_in, fc_out, node_vars, toggles, cat_idx, node_type, map_ids,
                 node_ids, objects, obj_idx, page, nodes, requests, raised_at,
                 nodes_by_map, lua_lines, files, scraped>>

Next ==
  \/ \E i \in 1..Len(NodeVarNames) : Toggle(i)
  \/ RunClick
  \/ RunScrape
  \/ ScrapeListing
  \/ ScrapeObject
  \/ ScrapeReturn
  \/ RunExport
  \/ RunFinish

Spec == Init /\ [][Next]_vars

(***************************************************************************)
(* Claims about format_coords (SpecCodec).                                 *)
(***************************************************************************)
\* the calls made so far: argument pair and result
CodecCalls == {[x |-> fc_in[i][1], y |-> fc_in[i][2], out |-> fc_out[i]] :
                 i \in 1..Len(fc_out)}

\* c is a 4-decimal float with lowK <= c * Scale <= highK
FourDecimal(c, lowK, highK) ==
  ~c.nan /\ c.v % Sub = 0 /\ lowK * Sub <= c.v /\ c.v <= highK * Sub

\* the integers within one of c * Scale
Near(c) == {(c.v \div Sub) + d : d \in -1..1}

\* r is floor(c * Scale + 0.5)
IsFloorOfScaled(r, c) ==
  r * 2 * Sub <= 2 * c.v + Sub /\ 2 * c.v + Sub < (r + 1) * 2 * Sub

\* r is c * Scale + 0.5 with its fraction dropped (rounded toward zero)
IsTruncOfScaled(r, c) ==
  IF 2 * c.v + Sub >= 0
  THEN IsFloorOfScaled(r, c)
  ELSE (r - 1) * 2 * Sub < 2 * c.v + Sub /\ 2 * c.v + Sub <= r * 2 * Sub

\* C6 as stated: two different pairs with every coordinate a 4-decimal float
\* in [0, 100] never pack to the same key.
C6_InjectiveOnClosedRange ==
  \A a, b \in CodecCalls :
    ( /\ FourDecimal(a.x, 0, 1000000) /\ FourDecimal(a.y, 0, 1000000)
      /\ FourDecimal(b.x, 0, 1000000) /\ FourDecimal(b.y, 0, 1000000)
      /\ (a.x # b.x \/ a.y # b.y) )
    => a.out.value # b.out.value

\* C6 as amended: two different pairs with x a 4-decimal float in [0, 100]
\* and y a 4-decimal float in [0, 99.9999] never pack to the same key.
C6_InjectiveBelowHundred ==
  \A a, b \in CodecCalls :
    ( /\ FourDecimal(a.x, 0, 1000000) /\ FourDecimal(a.y, 0, 999999)
      /\ FourDecimal(b.x, 0, 1000000) /\ FourDecimal(b.y, 0, 999999)
      /\ (a.x # b.x \/ a.y # b.y) )
    => (~a.out.raised /\ ~b.out.raised /\ a.out.value # b.out.value)

\* (100, 99.9999) and (0.0001, 0) have both been packed
C6_Witness ==
  /\ Len(fc_out) = 2
  /\ fc_in[1] = <<Num(1000000 * Sub), Num(999999 * Sub)>>
  /\ fc_in[2] = <<Num(1 * Sub), Num(0)>>

\* C7 as stated: every finite pair packs to
\* floor(x*10000 + 0.5) * 1000000 + floor(y*10000 + 0.5).
C7_FloorDefinition ==
  \A a \in CodecCalls :
    (~a.x.nan /\ ~a.y.nan) =>
      \E rx \in Near(a.x), ry \in Near(a.y) :
        /\ IsFloorOfScaled(rx, a.x) /\ IsFloorOfScaled(ry, a.y)
        /\ ~a.out.raised
        /\ a.out.value = int_of(rx, ry)

\* C7 as amended: every finite pair packs to tx * 1000000 + ty, where tx and
\* ty are x*10000 + 0.5 and y*10000 + 0.5 rounded toward zero (the floor when
\* that sum is not negative); format_coords(12.3, 45.6) = 123000456000,
\* format_coords(0, 0) = 0 and format_coords(100, 100) = 1000001000000.
C7_TruncDefinition ==
  \A a \in CodecCalls :
    /\ (~a.x.nan /\ ~a.y.nan) =>
         \E rx \in Near(a.x), ry \in Near(a.y) :
           /\ IsTruncOfScaled(rx, a.x) /\ IsTruncOfScaled(ry, a.y)
           /\ ~a.out.raised
           /\ a.out.value = int_of(rx, ry)
    /\ (a.x = Num(123000 * Sub) /\ a.y = Num(456000 * Sub)) =>
         int_str(a.out.value) = "123000456000"
    /\ (a.x = Num(0) /\ a.y = Num(0)) => int_str(a.out.value) = "0"
    /\ (a.x = Num(1000000 * Sub) /\ a.y = Num(1000000 * Sub)) =>
         int_str(a.out.value) = "1000001000000"

\* (-0.0001, 12.3) has been packed: x*10000 + 0.5 is -0.5
C7_Witness ==
  /\ Len(fc_out) >= 1
  /\ fc_in[1] = <<Num(-Sub), Num(123000 * Sub)>>
  /\ ~fc_out[1].raised

(***************************************************************************)
(* Claims about export_lua (SpecExport).                                   *)
(***************************************************************************)
\* the text of the file called name
FileText(name) == (CHOOSE f \in files : f.name = name).text

FileExists(name) == \E f \in files : f.name = name

\* the category name with its first letter upper-cased, the rest as given
FirstUpperRestKept(s) ==
  IF s = <<>> THEN "" ELSE char_upper(Head(s)) \o Str(Tail(s))

\* the category name with its first letter upper-cased, the rest lower-cased
FirstUpperRestLower(s) ==
  IF s = <<>> THEN "" ELSE char_upper(Head(s)) \o Str(lower(Tail(s)))

\* the observations of the input that resolve in both mappings, in order
Resolved == SelectSeq(nodes, LAMBDA o : o.map_name \in DOMAIN map_ids
                                         /\ o.node_name \in DOMAIN node_ids)

\* s without the elements that repeat an earlier one
RECURSIVE FirstOccurrences(_)
FirstOccurrences(s) ==
  IF s = <<>> THEN <<>>
  ELSE LET front == FirstOccurrences(SubSeq(s, 1, Len(s) - 1))
           last  == s[Len(s)]
       IN  IF \E i \in 1..Len(front) : front[i] = last THEN front
           ELSE Append(front, last)

KeyOf(o) == int_of(scale_round(o.coords[1]), scale_round(o.coords[2]))

\* map ids in order of their first resolved observation
ExpectedMapOrder ==
  FirstOccurrences([i \in 1..Len(Resolved) |-> map_ids[Resolved[i].map_name]])

\* the resolved observations of map id m, in order
ResolvedOf(m) == SelectSeq(Resolved, LAMBDA o : map_ids[o.map_name] = m)

\* packed keys of map id m in order of first appearance
ExpectedKeyOrder(m) ==
  FirstOccurrences([i \in 1..Len(ResolvedOf(m)) |-> KeyOf(ResolvedOf(m)[i])])

\* the node id of the last resolved observation of map id m packing to k
LastNodeId(m, k) ==
  LET hits == SelectSeq(ResolvedOf(m), LAMBDA o : KeyOf(o) = k)
  IN  node_ids[hits[Len(hits)].node_name]

RECURSIVE ExpectedEntries(_, _)
ExpectedEntries(m, keys) ==
  IF keys = <<>> THEN ""
  ELSE "    [" \o int_str(Head(keys)) \o "] = "
         \o ToString(LastNodeId(m, Head(keys))) \o ",\n"
         \o ExpectedEntries(m, Tail(keys))

RECURSIVE ExpectedBlocks(_)
ExpectedBlocks(ms) ==
  IF ms = <<>> THEN ""
  ELSE "  [" \o ToString(Head(ms)) \o "] = {\n"
         \o ExpectedEntries(Head(ms), ExpectedKeyOrder(Head(ms)))
         \o "  },\n" \o ExpectedBlocks(Tail(ms))

ExpectedText ==
  "GatherMate2" \o FirstUpperRestLower(node_type) \o "Data = {\n"
    \o ExpectedBlocks(ExpectedMapOrder) \o "}"

\* C4: export_lua's aggregation never raises; the grouping holds an entry for
\* an observation exactly when its map_name is a key of map_ids and its
\* node_name is a key of node_ids.
C4_AggregationNeverRaises ==
  pc \in {"exported", "raised"} =>
    /\ pc # "raised"
    /\ \A n \in 1..Len(Resolved) :
         /\ dict_has(nodes_by_map, map_ids[Resolved[n].map_name])
         /\ dict_has(dict_get(nodes_by_map, map_ids[Resolved[n].map_name]),
                     KeyOf(Resolved[n]))
    /\ \A i \in 1..Len(nodes_by_map) : \A a \in 1..Len(nodes_by_map[i].v) :
         \E n \in 1..Len(Resolved) :
           /\ map_ids[Resolved[n].map_name] = nodes_by_map[i].k
           /\ KeyOf(Resolved[n]) = nodes_by_map[i].v[a].k

\* C5: in the grouping, and in the written lines, every (map id, packed
\* key) occurs at most once, and the node id stored under it is that of the
\* last observation that resolved to the map id and packed to the key.
C5_LastWriteWins ==
  pc = "exported" =>
    /\ \A i, j \in 1..Len(nodes_by_map) :
         nodes_by_map[i].k = nodes_by_map[j].k => i = j
    /\ \A i \in 1..Len(nodes_by_map) :
         LET m == nodes_by_map[i].k
             entries == nodes_by_map[i].v
         IN  /\ \A a, b \in 1..Len(entries) : entries[a].k = entries[b].k => a = b
             /\ \A a \in 1..Len(entries) :
                  /\ \E o \in {Resolved[n] : n \in 1..Len(Resolved)} :
                       map_ids[o.map_name] = m /\ KeyOf(o) = entries[a].k
                  /\ entries[a].v = LastNodeId(m, entries[a].k)
    /\ \A m \in MapIdVals :
         Cardinality({i \in 1..Len(lua_lines) :
                        lua_lines[i] = "  [" \o ToString(m) \o "] = {"}) <= 1
    /\ \A m \in MapIdVals :
         \A o \in {Resolved[n] : n \in 1..Len(Resolved)} :
           map_ids[o.map_name] = m =>
             \E h \in 1..Len(lua_lines) :
               /\ lua_lines[h] = "  [" \o ToString(m) \o "] = {"
               /\ LET close == CHOOSE c \in h..Len(lua_lines) :
                                 /\ lua_lines[c] = "  },"
                                 /\ \A d \in h..(c - 1) : lua_lines[d] # "  },"
                  IN  Cardinality({i \in h..close : \E n \in NodeIdVals :
                        lua_lines[i] = "    [" \o int_str(KeyOf(o)) \o "] = "
                                         \o ToString(n) \o ","}) = 1
                      /\ \E i \in h..close :
                           lua_lines[i] = "    [" \o int_str(KeyOf(o)) \o "] = "
                             \o ToString(LastNodeId(m, KeyOf(o))) \o ","

\* two observations of one map id packed to one key with different node ids
C5_Witness ==
  /\ pc = "exported"
  /\ \E i, j \in 1..Len(Resolved) :
       /\ i < j
       /\ map_ids[Resolved[i].map_name] = map_ids[Resolved[j].map_name]
       /\ Resolved[i].map_name # Resolved[j].map_name
       /\ KeyOf(Resolved[i]) = KeyOf(Resolved[j])
       /\ node_ids[Resolved[i].node_name] # node_ids[Resolved[j].node_name]

\* C8: the written text is the header line, then per map id, in order of its
\* first resolved observation, a block of one entry line per distinct packed
\* key in order of the key's first appearance, then a bare "}" with no
\* newline after it; with nothing resolved it is the header line and "}".
C8_ExactText ==
  pc = "exported" =>
    /\ FileExists(FirstUpperRestLower(node_type) \o "Data.lua")
    /\ FileText(FirstUpperRestLower(node_type) \o "Data.lua") = ExpectedText
    /\ (node_type = lower(Herbalism) /\ Resolved = <<>>) =>
         FileText("HerbalismData.lua") = "GatherMate2HerbalismData = {\n}"
    /\ ( /\ node_type = lower(Herbalism)
         /\ nodes = <<Obs("A", "Foo", F1, F2)>>
         /\ "A" \in DOMAIN map_ids /\ "Foo" \in DOMAIN node_ids ) =>
         FileText("HerbalismData.lua") =
           "GatherMate2HerbalismData = {\n  [42] = {\n    [10000020000] = 99,\n  },\n}"

\* a key is overwritten after another key of the same map was inserted
C8_Witness ==
  /\ pc = "exported"
  /\ Len(Resolved) = 3
  /\ map_ids[Resolved[1].map_name] = map_ids[Resolved[2].map_name]
  /\ map_ids[Resolved[1].map_name] = map_ids[Resolved[3].map_name]
  /\ KeyOf(Resolved[1]) # KeyOf(Resolved[2])
  /\ KeyOf(Resolved[1]) = KeyOf(Resolved[3])
  /\ node_ids[Resolved[1].node_name] # node_ids[Resolved[3].node_name]

\* C9 as stated: the table name and the file name carry the category name
\* with its first letter upper-cased and every other character unchanged.
C9_RestUnchanged ==
  pc = "exported" =>
    /\ FileExists(FirstUpperRestKept(node_type) \o "Data.lua")
    /\ lua_lines[1] = "GatherMate2" \o FirstUpperRestKept(node_type) \o "Data = {"

\* C9 as amended: the table name and the file name carry the category name
\* with its first letter upper-cased and every other letter lower-cased.
C9_RestLowered ==
  pc = "exported" =>
    /\ files = {[name |-> FirstUpperRestLower(node_type) \o "Data.lua",
                 text |-> Join(lua_lines)]}
    /\ lua_lines[1] = "GatherMate2" \o FirstUpperRestLower(node_type) \o "Data = {"
    /\ node_type = <<"M","I","N","I","N","G">> =>
         /\ FileExists("MiningData.lua")
         /\ lua_lines[1] = "GatherMate2MiningData = {"

\* a category name with upper-case letters after the first has been exported
C9_Witness ==
  /\ pc = "exported"
  /\ node_type = <<"g","a","s","C","l","o","u","d">>
  /\ FileExists("GascloudData.lua")

(***************************************************************************)
(* Claims about scrape_nodes (SpecScrape).                                 *)
(***************************************************************************)
\* the listed objects that have an id, in listing order
WithId(objs) == SelectSeq(objs, LAMBDA o : o.id # 0)

\* the number of listed objects whose iteration has begun
ObjectsBegun ==
  obj_idx + (IF pc = "raised" /\ raised_at \in {"object", "pair"} THEN 1 ELSE 0)

InScrapeCall == pc \in {"objects", "returned", "raised"}

\* C2: whatever one object's detail page holds (a failed fetch, no
\* g_mapperData, malformed JSON, JSON of another shape, a coordinate pair
\* that is not two numbers), scrape_nodes goes on to the next object: no
\* exception leaves the loop over the objects.
C2_ObjectFailureContained ==
  ~(pc = "raised" /\ raised_at \in {"object", "pair"})

\* C10 as stated: the listing URL is requested exactly once; a failed request
\* is never followed by another request to the same URL; the requests of a
\* call number at most 1 plus the listed objects with an id, and exactly 1
\* when the listing fetch or parse fails.
C10_NoRepeatedRequest ==
  (InScrapeCall /\ has_page_url(node_type)) =>
    /\ Cardinality({i \in 1..Len(requests) :
                      requests[i].url = page_url(node_type)}) = 1
    /\ \A i, j \in 1..Len(requests) :
         (i < j /\ requests[i].url = requests[j].url) => requests[i].ok
    /\ Len(requests) <= 1 + Len(WithId(objects))
    /\ page.kind \in ListingFailures \cup {"listing_bad_shape"} =>
         Len(requests) = 1

\* C10 as amended: a category without a listing URL makes no request;
\* otherwise the requests of a call are the listing URL, once, followed by
\* one request per listed object with an id whose iteration has begun, in
\* listing order (so a URL recurs exactly when the listing repeats an id,
\* also after a failure), and nothing follows a failed listing.
C10_OneRequestPerListedObject ==
  InScrapeCall =>
    IF ~has_page_url(node_type) THEN requests = <<>>
    ELSE LET asked == WithId(SubSeq(objects, 1, ObjectsBegun))
         IN  /\ Len(requests) = 1 + Len(asked)
             /\ requests[1].url = page_url(node_type)
             /\ \A k \in 1..Len(asked) : requests[k + 1].url = obj_url(asked[k])
             /\ Len(requests) > 1 => requests[1].ok
             /\ Len(requests) <= 1 + Len(WithId(objects))
             /\ page.kind \in ListingFailures \cup {"listing_bad_shape"} =>
                  Len(requests) = 1

\* a call returned after a failed detail request and a later successful one
C10_Witness ==
  /\ pc = "returned"
  /\ Len(requests) = 3
  /\ ~requests[2].ok
  /\ requests[3].ok
  /\ requests[2].url # requests[3].url

(***************************************************************************)
(* Claims about run() (Spec).                                              *)
(***************************************************************************)
\* the record run() left for the category at position i
ScrapedOf(i) == CHOOSE e \in {scraped[n] : n \in 1..Len(scraped)} : e.idx = i

WasScraped(i) == \E n \in 1..Len(scraped) : scraped[n].idx = i

OutputName(i) == FirstUpperRestLower(NodeVarNames[i]) \o "Data.lua"

\* C1 as stated: after run() a selected category has its file exactly when
\* it produced an observation that resolves in both mappings.
C1_FileIffResolvable ==
  pc = "done" =>
    \A i \in 1..Len(NodeVarNames) :
      node_vars[i] =>
        /\ WasScraped(i)
        /\ FileExists(OutputName(i)) <=> ScrapedOf(i).resolvable

\* C1 as amended: after run() a selected category has its file exactly when
\* scrape_nodes returned at least one observation for it, resolvable or not;
\* when none of them resolves the file holds the header line and "}" only;
\* an unselected category has no file.
C1_FileIffScraped ==
  pc = "done" =>
    \A i \in 1..Len(NodeVarNames) :
      IF node_vars[i]
      THEN /\ WasScraped(i)
           /\ FileExists(OutputName(i)) <=> ScrapedOf(i).any
           /\ (ScrapedOf(i).any /\ ~ScrapedOf(i).resolvable) =>
                FileText(OutputName(i)) =
                  "GatherMate2" \o FirstUpperRestLower(NodeVarNames[i])
                    \o "Data = {\n}"
      ELSE ~FileExists(OutputName(i))

\* run() finished with one category that returned only unresolvable
\* observations, one that returned none, and one with a resolvable one
C1_Witness ==
  /\ pc = "done"
  /\ \E a, b, c \in 1..Len(scraped) :
       /\ scraped[a].any /\ ~scraped[a].resolvable
       /\ ~scraped[b].any
       /\ scraped[c].resolvable

\* C3: whatever the listing of a category holds, scrape_nodes returns (an
\* empty list when the listing cannot be fetched or parsed) and run() goes on:
\* no exception leaves scrape_nodes at the listing, a failed listing leaves no
\* file, and at the end every selected category has been scraped, in order.
C3_ListingFailureContained ==
  /\ ~(pc = "raised" /\ raised_at = "listing")
  /\ (pc = "returned" /\ page.kind \in ListingFailures \cup {"none"}) => nodes = <<>>
  /\ pc = "done" =>
       /\ \A i \in 1..Len(NodeVarNames) : node_vars[i] <=> WasScraped(i)
       /\ \A a, b \in 1..Len(scraped) : a < b => scraped[a].idx < scraped[b].idx

====
